---- MODULE Spec2Model ----
(***************************************************************************)
(* ScraperPromise (src/src/ScraperPromise.js): a chain builder whose       *)
(* registry of steps is walked by async.eachSeries when the scraper's      *)
(* get/request completes.                                                  *)
(*                                                                         *)
(* JavaScript is single threaded and run-to-completion: one action of the  *)
(* model is one builder call or one event-loop task (the fetch callback    *)
(* that calls _fire, a timer, an asynchronous scrape callback).  What a    *)
(* task does is computed by mutually recursive operators that follow the   *)
(* call stack of the code, exceptions included: every operator returns     *)
(* [m, exc], the machine after the call and the exception that left it     *)
(* (NoErr when it returned normally).                                      *)
(***************************************************************************)
EXTENDS Integers, Sequences, FiniteSets, TLC

\* ------------------------------------------------------------------ bounds
MaxSteps == 3

\* ------------------------------------------------------------------ values
NoErr == "none"
stopPointer == "stopPointer"
StepError == "E"
FetchError == "F"
TypeError == "TypeError"

StatusCodes == {200, 404}

\* what a user callback does when it is invoked with the context
CallbackBehaviours == {"ok", "stop", "throw"}
\* the signals a raw step function (installed with _setPromises) passes to done
Signals == {NoErr, StepError, stopPointer}

Step(kind, code, first, second) ==
  [kind |-> kind, code |-> code, first |-> first, second |-> second]

RawSteps == {Step("raw", 0, a, b) : a \in Signals, b \in Signals}

\* an entry of a run's log: what happened, at which step (or with which
\* status code), with which value, on which scraper
Ev(e, k, x, f) == [e |-> e, k |-> k, x |-> x, f |-> f]

VARIABLES
  builder,   \* sequence of ScraperPromise objects
  registry,  \* heap of step arrays; builder[b].promises is an index into it
  fetcher,   \* the Scraper objects: last status code, close() calls, kind
  pending,   \* get/request calls whose callback has not been invoked yet
  runs,      \* one record per _fire call: the locals its closures share
  tasks      \* deferred callbacks (timers, asynchronous scrape results)

vars == <<builder, registry, fetcher, pending, runs, tasks>>

Ret(m) == [m |-> m, exc |-> NoErr]
Throw(m, e) == [m |-> m, exc |-> e]
\* statement sequencing: what follows a call runs only if the call returned
AndThen(res, Rest(_)) == IF res.exc # NoErr THEN res ELSE Rest(res.m)
\* try { res } catch (err) { Handler }
TryCatch(res, Handler(_, _)) ==
  IF res.exc = NoErr THEN res ELSE Handler(res.m, res.exc)
Log(m, e, k, x) == [m EXCEPT !.run.log = Append(@, Ev(e, k, x, 0))]
LogScraper(m, e, k, f) == [m EXCEPT !.run.log = Append(@, Ev(e, k, "", f))]

\* the behaviours the callback of a step can be given, by kind of step
BehavioursOf(s) ==
  CASE s.kind \in {"then", "onStatusCode", "onGenericStatusCode"} -> CallbackBehaviours
    [] s.kind = "scrape" -> {"ok", "stop", "fail"}
    [] s.kind \in {"delay", "timeout"} -> {"ok", "stop"}
    [] OTHER -> {"ok"}

\* one behaviour for each step a task can still reach: those from `from` on
BehaviourVectors(arr, from) ==
  {f \in [1..Len(arr) -> CallbackBehaviours \cup {"fail"}] :
     \A k \in 1..Len(arr) :
       f[k] \in IF k < from THEN {"ok"} ELSE BehavioursOf(arr[k])}

\* async.eachSeries re-enters the dispatcher from the callback it hands out
RECURSIVE iterate(_, _)

\* ------------------------------------------------- _fire: final callback
errorCallbackSet(c) == c.errorCallback # "null"

IsGenuineError(err) == err # NoErr /\ err # stopPointer

closeScraper(c, m) ==
  LogScraper([m EXCEPT !.fx[c.sid].closed = @ + 1], "close", 0, c.sid)

\* mutant: the final callback returns once it has reported the error
finalCallback_errorOnly(c, m, err) ==
  LET m1 == [m EXCEPT !.run.stop = 0]
  IN IF IsGenuineError(err) /\ errorCallbackSet(c)
     THEN Ret(closeScraper(c, Log(m1, "errorCallback", 1, err)))
     ELSE LET m4 == closeScraper(c, Log(m1, "doneCallback", 1, c.doneCallback))
          IN IF IsGenuineError(err) THEN Throw(Log(m4, "throw", 0, err), err)
             ELSE Ret(m4)

\* mutant: the final callback leaves utils.stop bound to the last step
finalCallback_armed(c, m, err) ==
  LET trh == IsGenuineError(err) /\ ~errorCallbackSet(c)
      m2 == IF IsGenuineError(err) /\ errorCallbackSet(c)
            THEN Log(m, "errorCallback", 1, err)
            ELSE m
      m4 == closeScraper(c, Log(m2, "doneCallback", 1, c.doneCallback))
  IN IF trh THEN Throw(Log(m4, "throw", 0, err), err) ELSE Ret(m4)

finalCallback(c, m, err) ==
  LET m1 == [m EXCEPT !.run.stop = 0]
      trh == IsGenuineError(err) /\ ~errorCallbackSet(c)
      m2 == IF IsGenuineError(err) /\ errorCallbackSet(c)
            THEN Log(m1, "errorCallback", 1, err)
            ELSE m1
      m3 == Log(m2, "doneCallback", 1, c.doneCallback)
      m4 == closeScraper(c, m3)
  IN IF trh THEN Throw(Log(m4, "throw", 0, err), err) ELSE Ret(m4)

\* ------------------------------------------------ async.eachSeries (0.9)
\* The library is required at ScraperPromise.js:1 and called at line 258.
\* Its iterator callback is synchronous and, in the 0.9 series, reads
\*   if (err) { callback(err); callback = function() {}; }
\*   else { completed += 1;
\*          if (completed >= arr.length) callback(); else iterate(); }
\* so the final callback is retired only after it RETURNED from an error
\* (cbLive), not when it threw and not after a normal completion, and a
\* step that signals twice advances the walk twice.
eachSeriesCallback(c, m, err) ==
  IF m.run.cbLive THEN finalCallback(c, m, err) ELSE Ret(m)

callback(c, m, err) ==
  IF err # NoErr
  THEN AndThen(eachSeriesCallback(c, m, err),
               LAMBDA m1 : Ret([m1 EXCEPT !.run.cbLive = FALSE]))
  ELSE LET m1 == [m EXCEPT !.run.completed = @ + 1]
       IN IF m1.run.completed >= Len(c.arr)
          THEN eachSeriesCallback(c, m1, NoErr)
          ELSE iterate(c, m1)

\* ----------------------------------------------------- _fire: dispatcher
\* mutant: done() does not consult the keep flag
keepGuard_always(m) == TRUE

keepGuard(m) == m.run.keep

dispatcher_done(c, m, k, err) ==
  LET m1 == Log(m, "signal", k, err)
  IN IF err = stopPointer
     THEN callback(c, [m1 EXCEPT !.run.keep = FALSE], err)
     ELSE IF err # NoErr
     THEN callback(c, m1, err)
     ELSE IF keepGuard(m1)
     THEN callback(c, m1, NoErr)
     ELSE Ret(m1)

utils_stop(c, m) ==
  IF m.run.stop = 0 THEN Ret(m)
  ELSE dispatcher_done(c, m, m.run.stop, stopPointer)

\* ------------------------------------------------------------- the steps
userCallback(c, m, k) ==
  LET m1 == Log(m, "callback", k, c.beh[k])
  IN CASE c.beh[k] = "stop" -> utils_stop(c, m1)
       [] c.beh[k] = "throw" -> Throw(m1, StepError)
       [] OTHER -> Ret(m1)

getStatusCode(c) == c.fx[c.sid].statusCode

stepOnGenericStatusCode(c, m, k) ==
  AndThen(userCallback(c, LogScraper(m, "getStatusCode", getStatusCode(c), c.sid), k),
          LAMBDA m1 : dispatcher_done(c, m1, k, NoErr))

\* mutant: the callback is invoked whatever the status code
codeMatches_always(c, k) == TRUE

codeMatches(c, k) == c.arr[k].code = getStatusCode(c)

stepOnStatusCode(c, m, k) ==
  AndThen(IF codeMatches(c, k)
          THEN userCallback(c, LogScraper(m, "getStatusCode", getStatusCode(c), c.sid), k)
          ELSE Ret(LogScraper(m, "getStatusCode", getStatusCode(c), c.sid)),
          LAMBDA m1 : dispatcher_done(c, m1, k, NoErr))

scrapeCallback(c, m, k) ==
  IF c.beh[k] = "fail"
  THEN dispatcher_done(c, m, k, StepError)
  ELSE AndThen(userCallback(c, m, k),
               LAMBDA m1 : dispatcher_done(c, m1, k, NoErr))

Schedule(m, type, r, k) ==
  [m EXCEPT !.tasks = @ \cup {[type |-> type, r |-> r, k |-> k]}]

stepScrape(c, m, k) ==
  LET m1 == LogScraper(m, "scrape", k, c.sid)
  IN IF c.fx[c.sid].sync
     THEN scrapeCallback(c, m1, k)
     ELSE Ret(Schedule(m1, "scrape", c.r, k))

\* mutant: delay signals completion without waiting for its timer
stepDelay_nonBlocking(c, m, k) ==
  dispatcher_done(c, Schedule(m, "delay", c.r, k), k, NoErr)

stepDelay(c, m, k) == Ret(Schedule(m, "delay", c.r, k))

\* mutant: timeout leaves the completion signal to its timer
stepTimeout_blocking(c, m, k) == Ret(Schedule(m, "timeout", c.r, k))

stepTimeout(c, m, k) ==
  dispatcher_done(c, Schedule(m, "timeout", c.r, k), k, NoErr)

\* mutant: then signals completion before it invokes the callback
stepThen_doneFirst(c, m, k) ==
  AndThen(dispatcher_done(c, m, k, NoErr), LAMBDA m1 : userCallback(c, m1, k))

stepThen(c, m, k) ==
  AndThen(userCallback(c, m, k), LAMBDA m1 : dispatcher_done(c, m1, k, NoErr))

stepRaw(c, m, k) ==
  AndThen(dispatcher_done(c, m, k, c.arr[k].first),
          LAMBDA m1 : dispatcher_done(c, m1, k, c.arr[k].second))

fn(c, m, k) ==
  CASE c.arr[k].kind = "onGenericStatusCode" -> stepOnGenericStatusCode(c, m, k)
    [] c.arr[k].kind = "onStatusCode" -> stepOnStatusCode(c, m, k)
    [] c.arr[k].kind = "scrape" -> stepScrape(c, m, k)
    [] c.arr[k].kind = "delay" -> stepDelay(c, m, k)
    [] c.arr[k].kind = "timeout" -> stepTimeout(c, m, k)
    [] c.arr[k].kind = "then" -> stepThen(c, m, k)
    [] OTHER -> stepRaw(c, m, k)

\* ------------------------------------------- dispatcher and the series
dispatcher(c, m, k) ==
  TryCatch(fn(c, Log([m EXCEPT !.run.stop = k], "start", k, c.arr[k].kind), k),
           LAMBDA m1, err : dispatcher_done(c, Log(m1, "caught", k, err), k, err))

iterate(c, m) == dispatcher(c, m, m.run.completed + 1)

eachSeries(c, m) ==
  IF Len(c.arr) = 0 THEN finalCallback(c, m, NoErr) ELSE iterate(c, m)

\* ----------------------------------------------------------------- _fire
_fire(c, m, error) ==
  IF error # NoErr
  THEN IF errorCallbackSet(c)
       THEN Ret(Log(Log(m, "errorCallback", 0, error), "doneCallback", 0, c.doneCallback))
       ELSE Throw(m, TypeError)
  ELSE eachSeries(c, m)

\* ------------------------------------------------------ event-loop tasks
\* the objects a closure of run `run` reaches when a task of it starts
Context(r, run, fx, beh) ==
  [r |-> r,
   sid |-> builder[run.that].scraper,
   arr |-> registry[run.arr],
   errorCallback |-> builder[run.that].errorCallback,
   doneCallback |-> builder[run.that].doneCallback,
   fx |-> fx,
   beh |-> beh]

Machine(run, fx) == [run |-> run, tasks |-> tasks, fx |-> fx]

\* an exception that leaves the task reaches the event loop
TopLevel(res) ==
  TryCatch(res, LAMBDA m1, err : Ret(Log(m1, "uncaught", 0, err))).m

timerTask(c, m, t) ==
  CASE t.type = "scrape" -> scrapeCallback(c, m, t.k)
    [] t.type = "delay" ->
         AndThen(userCallback(c, m, t.k),
                 LAMBDA m1 : dispatcher_done(c, m1, t.k, NoErr))
    [] OTHER -> userCallback(c, m, t.k)

\* mutant: the keep flag belongs to the builder and outlives the run
NewRun_staleKeep(b, error) ==
  [that |-> b, error |-> error, arr |-> builder[b].promises,
   keep |-> \A r \in 1..Len(runs) : runs[r].that = b => runs[r].keep,
   completed |-> 0, cbLive |-> TRUE, stop |-> 0,
   params |-> builder[b].chainParameter, log |-> <<>>,
   len0 |-> Len(registry[builder[b].promises])]

\* the locals of a _fire call; len0 is history: the length the array of
\* steps had when the run was fired, which the code does not keep
NewRun(b, error) ==
  [that |-> b, error |-> error, arr |-> builder[b].promises, keep |-> TRUE, completed |-> 0,
   cbLive |-> TRUE, stop |-> 0, params |-> builder[b].chainParameter, log |-> <<>>,
   len0 |-> Len(registry[builder[b].promises])]

\* mutant: _fire leaves the chain parameter on the builder
FetchCallback_keepsParameter(b) ==
  /\ pending[b] > 0
  /\ \E error \in {NoErr, FetchError} :
     \E status \in IF error = NoErr THEN StatusCodes
                    ELSE {fetcher[builder[b].scraper].statusCode} :
       LET r == Len(runs) + 1
           run == NewRun(b, error)
           fx == [fetcher EXCEPT ![builder[b].scraper].statusCode = status]
           arr == registry[run.arr]
       IN \E beh \in BehaviourVectors(arr, IF error = NoErr THEN 1 ELSE Len(arr) + 1) :
            \E m \in {TopLevel(_fire(Context(r, run, fx, beh), Machine(run, fx), error))} :
               /\ runs' = Append(runs, m.run)
               /\ tasks' = m.tasks
               /\ fetcher' = m.fx
  /\ pending' = [pending EXCEPT ![b] = @ - 1]
  /\ UNCHANGED <<builder, registry>>

\* the scraper invokes the callback that get/request gave it: that._fire(err)
FetchCallback(b) ==
  /\ pending[b] > 0
  /\ \E error \in {NoErr, FetchError} :
     \E status \in IF error = NoErr THEN StatusCodes
                    ELSE {fetcher[builder[b].scraper].statusCode} :
       LET r == Len(runs) + 1
           run == NewRun(b, error)
           fx == [fetcher EXCEPT ![builder[b].scraper].statusCode = status]
           arr == registry[run.arr]
       IN \E beh \in BehaviourVectors(arr, IF error = NoErr THEN 1 ELSE Len(arr) + 1) :
            \E m \in {TopLevel(_fire(Context(r, run, fx, beh), Machine(run, fx), error))} :
               /\ runs' = Append(runs, m.run)
               /\ tasks' = m.tasks
               /\ fetcher' = m.fx
  /\ pending' = [pending EXCEPT ![b] = @ - 1]
  /\ builder' = [builder EXCEPT ![b].chainParameter = "null"]
  /\ UNCHANGED registry

\* a timer of a delay or timeout step fires, or an asynchronous scrape ends
TimerCallback(t) ==
  /\ t \in tasks
  /\ LET run == runs[t.r]
     IN \E beh \in BehaviourVectors(registry[run.arr], t.k) :
          \E m \in {TopLevel(timerTask(Context(t.r, run, fetcher, beh),
                                        [Machine(run, fetcher) EXCEPT !.tasks = @ \ {t}], t))} :
             /\ runs' = [runs EXCEPT ![t.r] = m.run]
             /\ tasks' = m.tasks
             /\ fetcher' = m.fx
  /\ UNCHANGED <<builder, registry, pending>>

\* ------------------------------------------------------- the builder API
push(b, s) ==
  /\ Len(registry[builder[b].promises]) < MaxSteps
  /\ registry' = [registry EXCEPT ![builder[b].promises] = Append(@, s)]
  /\ UNCHANGED <<builder, fetcher, pending, runs, tasks>>

onStatusCode(b) ==
  \/ push(b, Step("onGenericStatusCode", 0, NoErr, NoErr))
  \/ \E code \in StatusCodes : push(b, Step("onStatusCode", code, NoErr, NoErr))

scrape(b) == push(b, Step("scrape", 0, NoErr, NoErr))

delay(b) == push(b, Step("delay", 0, NoErr, NoErr))

timeout(b) == push(b, Step("timeout", 0, NoErr, NoErr))

then(b) == push(b, Step("then", 0, NoErr, NoErr))

done(b) ==
  /\ builder' = [builder EXCEPT ![b].doneCallback = "doneFn"]
  /\ UNCHANGED <<registry, fetcher, pending, runs, tasks>>

onError(b) ==
  /\ builder' = [builder EXCEPT ![b].errorCallback = "errorFn"]
  /\ UNCHANGED <<registry, fetcher, pending, runs, tasks>>

Fired == Len(runs)
Outstanding == LET RECURSIVE sum(_)
                   sum(i) == IF i = 0 THEN 0 ELSE pending[i] + sum(i - 1)
               IN sum(Len(pending))

scraper_get(b) ==
  /\ pending' = [pending EXCEPT ![b] = @ + 1]
  /\ UNCHANGED <<builder, registry, fetcher, runs, tasks>>

get(b) == scraper_get(b)

request(b) == scraper_get(b)

_setChainParameter(b) ==
  /\ builder' = [builder EXCEPT ![b].chainParameter = "param"]
  /\ UNCHANGED <<registry, fetcher, pending, runs, tasks>>

\* whether some builder other than b, or some run, still holds array i
Referenced(i, b) ==
  \/ \E o \in 1..Len(builder) : o # b /\ builder[o].promises = i
  \/ \E r \in 1..Len(runs) : runs[r].arr = i

\* _setPromises with a new array of step functions written by the caller;
\* the array it replaces is garbage once nothing else refers to it, and the
\* new array then takes its place in the heap
_setPromises(b) ==
  \E arr \in {<<>>} \cup {<<s>> : s \in RawSteps} :
    LET old == builder[b].promises
    IN /\ IF Referenced(old, b)
          THEN /\ registry' = Append(registry, arr)
               /\ builder' = [builder EXCEPT ![b].promises = Len(registry) + 1]
          ELSE /\ registry' = [registry EXCEPT ![old] = arr]
               /\ UNCHANGED builder
       /\ UNCHANGED <<fetcher, pending, runs, tasks>>

ScraperPromise(scraper, promises, doneCallback, errorCallback) ==
  [scraper |-> scraper, promises |-> promises, doneCallback |-> doneCallback,
   errorCallback |-> errorCallback, chainParameter |-> "null"]

Scraper(sync) == [statusCode |-> 0, closed |-> 0, sync |-> sync]

\* mutant: clone installs a copy of the array of steps
clone_copiesPromises(b) ==
  /\ fetcher' = Append(fetcher, Scraper(fetcher[builder[b].scraper].sync))
  /\ registry' = Append(registry, registry[builder[b].promises])
  /\ builder' = Append(builder,
       ScraperPromise(Len(fetcher) + 1, Len(registry) + 1,
                      builder[b].doneCallback, builder[b].errorCallback))
  /\ pending' = Append(pending, 0)
  /\ UNCHANGED <<runs, tasks>>

\* mutant: clone hands its own scraper to the new builder
clone_sharesScraper(b) ==
  /\ builder' = Append(builder,
       ScraperPromise(builder[b].scraper, builder[b].promises,
                      builder[b].doneCallback, builder[b].errorCallback))
  /\ pending' = Append(pending, 0)
  /\ UNCHANGED <<registry, fetcher, runs, tasks>>

\* new ScraperPromise(this.scraper.clone()), then _setPromises, done, onError
clone(b) ==
  /\ fetcher' = Append(fetcher, Scraper(fetcher[builder[b].scraper].sync))
  /\ builder' = Append(builder,
       ScraperPromise(Len(fetcher) + 1, builder[b].promises,
                      builder[b].doneCallback, builder[b].errorCallback))
  /\ pending' = Append(pending, 0)
  /\ UNCHANGED <<registry, runs, tasks>>

\* ---------------------------------------------------------- specification
Init ==
  /\ \E sync \in BOOLEAN : fetcher = <<Scraper(sync)>>
  /\ registry = << <<>> >>
  /\ builder = <<ScraperPromise(1, 1, "noop", "null")>>
  /\ pending = <<0>>
  /\ runs = <<>>
  /\ tasks = {}

\* the chain is built, then triggered: appends stop at the first trigger
Building == Fired + Outstanding = 0

Builders == 1..Len(builder)

Next ==
  \/ \E b \in Builders : Building /\ onStatusCode(b)
  \/ \E b \in Builders : Building /\ scrape(b)
  \/ \E b \in Builders : Building /\ delay(b)
  \/ \E b \in Builders : Building /\ timeout(b)
  \/ \E b \in Builders : Building /\ then(b)
  \/ \E b \in Builders : Building /\ onError(b)
  \/ \E b \in Builders : Building /\ get(b)
  \/ \E b \in Builders : Building /\ request(b)
  \/ \E b \in Builders : FetchCallback(b)
  \/ \E t \in tasks : TimerCallback(t)

Spec == Init /\ [][Next]_vars

\* the same, with registries that start from a step function of the caller
NextRaw ==
  \/ Next
  \/ \E b \in Builders : Building /\ _setPromises(b)

SpecRaw == Init /\ [][NextRaw]_vars

\* ------------------------------------------------------ reading the logs
Runs == 1..Len(runs)
LogOf(r) == runs[r].log
Arr(r) == registry[runs[r].arr]
ScraperOf(r) == builder[runs[r].that].scraper
ErrorCallbackOf(r) == builder[runs[r].that].errorCallback

\* nothing of run r is left in the event loop
Quiet(r) == \A t \in tasks : t.r # r

Positions(log, e) == {i \in 1..Len(log) : log[i].e = e}
At(log, e, k) == {i \in 1..Len(log) : log[i].e = e /\ log[i].k = k}
Count(log, e) == Cardinality(Positions(log, e))
EvAt(log, i) == IF i \in 1..Len(log) THEN log[i] ELSE Ev("end", 0, "", 0)

\* every step was registered with a step method of the builder
BuiltIn(arr) == \A k \in 1..Len(arr) : arr[k].kind # "raw"
AllThen(arr) == \A k \in 1..Len(arr) : arr[k].kind = "then"
\* no callback of the run stopped or raised
Calm(log) == \A i \in Positions(log, "callback") : log[i].x = "ok"

\* ------------------------------------------- chains, clones and re-runs
MaxBuilders == 2
MaxFires == 2

\* run r has reached its terminus
Ended(r) == \E i \in 1..Len(LogOf(r)) : LogOf(r)[i].e \in {"doneCallback", "uncaught"}

\* builder b has no request outstanding and no run in progress: a second
\* trigger before the first run finishes is not supported
Idle(b) == pending[b] = 0 /\ \A r \in Runs : runs[r].that = b => Ended(r)

CanFire(b) == Idle(b) /\ Fired + Outstanding < MaxFires

\* builder b has not been triggered yet
Untriggered(b) == pending[b] = 0 /\ \A r \in Runs : runs[r].that # b

\* the chains of this specification are one step shorter
MaxChain == MaxSteps - 1
Short(b) == Len(registry[builder[b].promises]) < MaxChain

\* a chain and its clones, one of which is triggered, once: steps are
\* appended, by any builder, before and after cloning and while the run is
\* in progress
NextClone ==
  \/ \E b \in Builders : Short(b) /\ onStatusCode(b)
  \/ \E b \in Builders : Short(b) /\ scrape(b)
  \/ \E b \in Builders : Short(b) /\ delay(b)
  \/ \E b \in Builders : Short(b) /\ then(b)
  \/ \E b \in Builders : Building /\ onError(b)
  \/ \E b \in Builders : Len(builder) < MaxBuilders /\ clone(b)
  \/ \E b \in Builders : Building /\ get(b)
  \/ \E b \in Builders : FetchCallback(b)
  \/ \E t \in tasks : TimerCallback(t)

SpecClone == Init /\ [][NextClone]_vars

\* the same with every builder triggered, once: the runs of a chain and of
\* its clones interleave
NextRuns ==
  \/ \E b \in Builders : Short(b) /\ onStatusCode(b)
  \/ \E b \in Builders : Short(b) /\ scrape(b)
  \/ \E b \in Builders : Building /\ onError(b)
  \/ \E b \in Builders : Len(builder) < MaxBuilders /\ clone(b)
  \/ \E b \in Builders : Untriggered(b) /\ get(b)
  \/ \E b \in Builders : FetchCallback(b)
  \/ \E t \in tasks : TimerCallback(t)

SpecRuns == Init /\ [][NextRuns]_vars

\* builders with nothing registered, and their clones, triggered again and
\* again, one get at a time; the chain parameter is stashed at any time
NextParam ==
  \/ \E b \in Builders : Building /\ onError(b)
  \/ \E b \in Builders : _setChainParameter(b)
  \/ \E b \in Builders : Len(builder) < MaxBuilders /\ clone(b)
  \/ \E b \in Builders : Outstanding = 0 /\ CanFire(b) /\ get(b)
  \/ \E b \in Builders : FetchCallback(b)

SpecParam == Init /\ [][NextParam]_vars

\* one chain, built and then triggered again and again, each time after
\* the run before has ended
NextRerun ==
  \/ \E b \in Builders : Building /\ Short(b) /\ scrape(b)
  \/ \E b \in Builders : Building /\ Short(b) /\ delay(b)
  \/ \E b \in Builders : Building /\ Short(b) /\ then(b)
  \/ \E b \in Builders : Building /\ onError(b)
  \/ \E b \in Builders : CanFire(b) /\ get(b)
  \/ \E b \in Builders : FetchCallback(b)
  \/ \E t \in tasks : TimerCallback(t)

SpecRerun == Init /\ [][NextRerun]_vars

\* ---------------------------------------------------------------- claims

\* C1: every run, whatever its outcome, invokes doneCallback exactly once.
\* Stated of the runs of built-in steps that have nothing left to do.
C1_DoneExactlyOnce ==
  \A r \in Runs :
    (BuiltIn(Arr(r)) /\ Quiet(r)) => Count(LogOf(r), "doneCallback") = 1

\* C2: a run of N then-steps in which no callback stops or raises invokes
\* each of the N callbacks exactly once, in registration order, starts step
\* k+1 only after step k signalled, invokes doneCallback once after the last
\* signal, and never invokes errorCallback.
C2_StepsInOrderThenDone ==
  \A r \in Runs :
    LET log == LogOf(r)
        N == Len(Arr(r))
    IN (runs[r].error = NoErr /\ AllThen(Arr(r)) /\ Calm(log)) =>
         /\ \A k \in 1..N : Cardinality(At(log, "callback", k)) = 1
         /\ \A j, k \in 1..N :
              j < k => \A a \in At(log, "callback", j), b \in At(log, "callback", k) : a < b
         /\ \A k \in 2..N :
              \A i \in At(log, "start", k) : \E j \in At(log, "signal", k - 1) : j < i
         /\ Count(log, "doneCallback") = 1
         /\ \A d \in Positions(log, "doneCallback") :
              \A k \in 1..N : \E j \in At(log, "signal", k) : j < d
         /\ Count(log, "errorCallback") = 0

C2_Witness ==
  \E r \in Runs :
    /\ runs[r].error = NoErr /\ AllThen(Arr(r)) /\ Calm(LogOf(r))
    /\ Len(Arr(r)) >= 2
    /\ Count(LogOf(r), "callback") = Len(Arr(r))
    /\ Count(LogOf(r), "doneCallback") = 1

\* a callback invoked stop while the stop capability was bound to step j
StopInvoked(log, i) ==
  /\ log[i].e = "callback" /\ log[i].x = "stop"
  /\ EvAt(log, i + 1).e = "signal" /\ EvAt(log, i + 1).x = stopPointer

C4_ErrorSurfacesOnce ==
  \A r \in Runs :
    LET log == LogOf(r)
    IN (BuiltIn(Arr(r)) /\ ErrorCallbackOf(r) = "null") =>
         \A i \in Positions(log, "throw") :
           /\ EvAt(log, i + 1) = Ev("uncaught", 0, log[i].x, 0)
           /\ Count(log, "doneCallback") = 1

\* step k signalled a genuine error before the run had ended
ErrorSignalled(log, i) ==
  /\ log[i].e = "signal" /\ log[i].x = StepError
  /\ \A d \in Positions(log, "doneCallback") : d > i

C6_PreTriggerError ==
  \A r \in Runs :
    LET log == LogOf(r)
    IN runs[r].error # NoErr =>
         /\ Count(log, "start") = 0
         /\ Count(log, "uncaught") = 0
         /\ Count(log, "doneCallback") = 1
         /\ ErrorCallbackOf(r) # "null" =>
              EvAt(log, 1) = Ev("errorCallback", 0, runs[r].error, 0)

\* C7: every run that has nothing left to do has closed its own scraper
\* once, after every errorCallback and doneCallback invocation.  Stated of
\* the runs that raised nothing, a pre-trigger error with an error callback
\* set among them.
C7_CloseLast ==
  \A r \in Runs :
    LET log == LogOf(r)
    IN (BuiltIn(Arr(r)) /\ Quiet(r) /\ Count(log, "uncaught") = 0) =>
         /\ Count(log, "close") = 1
         /\ \A i \in Positions(log, "close") :
              /\ log[i].f = ScraperOf(r)
              /\ \A j \in Positions(log, "errorCallback") \cup Positions(log, "doneCallback") :
                   j < i

\* C8: only the first completion signal of a step takes effect.  For a step
\* function that signals twice: a terminal callback is not invoked twice,
\* no step is started twice, and after a first signal that is an error or
\* the stop sentinel no further step is started.
C8_FirstSignalWins ==
  \A r \in Runs :
    LET log == LogOf(r)
        arr == Arr(r)
    IN (Len(arr) > 0 /\ arr[1].kind = "raw") =>
         /\ Count(log, "doneCallback") <= 1
         /\ Count(log, "errorCallback") <= 1
         /\ \A k \in 1..Len(arr) : Cardinality(At(log, "start", k)) <= 1
         /\ arr[1].first # NoErr => At(log, "start", 2) = {}

\* what a caller observes of a run: the steps started, the terminal
\* callbacks with their arguments, close() and the failure that surfaces
Observable(log) ==
  LET sel == SelectSeq(log, LAMBDA ev :
               ev.e \in {"start", "errorCallback", "doneCallback", "close", "uncaught"})
  IN [i \in 1..Len(sel) |->
        IF sel[i].e = "start" THEN Ev("start", sel[i].k, "", 0) ELSE sel[i]]

\* the log of the task that fires builder b on the array arr
FiredLog(b, arr, beh) ==
  LET run == NewRun(b, NoErr)
      c == [Context(1, run, fetcher, beh) EXCEPT !.arr = arr]
  IN TopLevel(_fire(c, Machine(run, fetcher), NoErr)).run.log

\* C9: a step that raises synchronously gives the same observable run as a
\* step that signals completion with that error.  Compared at every position
\* k of a built chain: the then-step whose callback raises, and in its place
\* a scrape step whose (synchronous) scraper reports the error to done.
C9_RaiseEqualsSignal ==
  \A b \in 1..Len(builder) :
    LET arr == registry[builder[b].promises]
    IN (Building /\ BuiltIn(arr) /\ fetcher[builder[b].scraper].sync) =>
         \A k \in 1..Len(arr) :
           arr[k].kind = "then" =>
             \A beh \in BehaviourVectors(arr, 1) :
               beh[k] = "throw" =>
                 Observable(FiredLog(b, arr, beh))
                   = Observable(FiredLog(b,
                       [arr EXCEPT ![k] = Step("scrape", 0, NoErr, NoErr)],
                       [beh EXCEPT ![k] = "fail"]))

\* step k, whose start is entry i of the log, goes on to the next step, or
\* to doneCallback when it is the last, with the signal that is entry j
Continues(log, j, k, N) ==
  /\ EvAt(log, j) = Ev("signal", k, NoErr, 0)
  /\ IF k < N
     THEN EvAt(log, j + 1).e = "start" /\ EvAt(log, j + 1).k = k + 1
     ELSE EvAt(log, j + 1).e = "doneCallback"

\* C10: a status-code step registered with the literal code C invokes its
\* callback if and only if getStatusCode() returns C when the step runs; on
\* a mismatch, and when the callback returns, the step signals completion
\* with no value and the next step is started (doneCallback after the last).
C10_StatusCodeStep ==
  \A r \in Runs :
    LET log == LogOf(r)
        N == Len(Arr(r))
    IN \A i \in 1..Len(log) :
         (BuiltIn(Arr(r)) /\ log[i].e = "start" /\ log[i].x = "onStatusCode") =>
           LET k == log[i].k
               C == Arr(r)[k].code
               status == EvAt(log, i + 1).k
           IN /\ EvAt(log, i + 1) = Ev("getStatusCode", fetcher[ScraperOf(r)].statusCode, "", ScraperOf(r))
              /\ Cardinality(At(log, "callback", k)) = IF C = status THEN 1 ELSE 0
              /\ C # status => Continues(log, i + 2, k, N)
              /\ C = status =>
                   /\ EvAt(log, i + 2).e = "callback" /\ EvAt(log, i + 2).k = k
                   /\ EvAt(log, i + 2).x = "ok" => Continues(log, i + 3, k, N)

C10_Witness ==
  \E r \in Runs :
    LET log == LogOf(r)
    IN \E i, j \in 1..Len(log) :
         /\ BuiltIn(Arr(r))
         /\ log[i].e = "start" /\ log[i].x = "onStatusCode"
         /\ EvAt(log, i + 1).e = "getStatusCode"
         /\ EvAt(log, i + 1).k # Arr(r)[log[i].k].code
         /\ log[i].k < Len(Arr(r))
         /\ Count(log, "start") > log[i].k
         /\ log[j].e = "start" /\ log[j].x = "onStatusCode"
         /\ EvAt(log, j + 1).k = Arr(r)[log[j].k].code
         /\ EvAt(log, j + 2).e = "callback"
         /\ Quiet(r) /\ Count(log, "doneCallback") = 1

\* no callback of the run stopped or raised and no step signalled an error
NoStopOrError(log) ==
  /\ Calm(log)
  /\ \A i \in Positions(log, "signal") : log[i].x = NoErr

\* C14: a delay step blocks the chain.  While its timer is pending neither
\* its callback has been invoked nor the following step started; the step
\* after a delay step is started only after the delay's callback was invoked;
\* and in a run with no stop and no error doneCallback is not invoked before
\* the callback of every delay step that was started.
C14_DelayBlocks ==
  \A r \in Runs :
    LET log == LogOf(r)
        N == Len(Arr(r))
    IN \A i \in 1..Len(log) :
         (BuiltIn(Arr(r)) /\ log[i].e = "start" /\ log[i].x = "delay") =>
           LET k == log[i].k
           IN /\ [type |-> "delay", r |-> r, k |-> k] \in tasks =>
                   /\ At(log, "callback", k) = {}
                   /\ At(log, "start", k + 1) = {}
              /\ \A j \in At(log, "start", k + 1) :
                   \E a \in At(log, "callback", k) : i < a /\ a < j
              /\ NoStopOrError(log) =>
                   \A d \in Positions(log, "doneCallback") :
                     \E a \in At(log, "callback", k) : i < a /\ a < d

C14_Witness ==
  \E r \in Runs :
    LET log == LogOf(r)
    IN \E i \in 1..Len(log) :
         /\ BuiltIn(Arr(r)) /\ log[i].e = "start" /\ log[i].x = "delay"
         /\ log[i].k < Len(Arr(r))
         /\ At(log, "callback", log[i].k) # {}
         /\ At(log, "start", log[i].k + 1) # {}
         /\ NoStopOrError(log)
         /\ Quiet(r) /\ Count(log, "doneCallback") = 1

\* C15: a timeout step never blocks the chain.  Right after it is started it
\* signals completion with no value and the next step is started (or
\* doneCallback invoked after the last step) in the same task; its callback
\* is invoked afterwards, never twice, and exactly once as soon as its timer
\* is no longer pending, whatever has become of the run meanwhile.
C15_TimeoutDoesNotBlock ==
  \A r \in Runs :
    LET log == LogOf(r)
        N == Len(Arr(r))
    IN \A i \in 1..Len(log) :
         (BuiltIn(Arr(r)) /\ log[i].e = "start" /\ log[i].x = "timeout") =>
           LET k == log[i].k
               timer == [type |-> "timeout", r |-> r, k |-> k]
           IN /\ Continues(log, i + 1, k, N)
              /\ \A a \in At(log, "callback", k) : a > i + 2
              /\ Cardinality(At(log, "callback", k)) = IF timer \in tasks THEN 0 ELSE 1

\* the run was stopped or met an error
Halted(log) == \E i \in Positions(log, "signal") : log[i].x # NoErr

C15_Witness ==
  \E r \in Runs :
    LET log == LogOf(r)
    IN \E i \in 1..Len(log) :
         /\ BuiltIn(Arr(r)) /\ log[i].e = "start" /\ log[i].x = "timeout"
         /\ log[i].k < Len(Arr(r))
         /\ Halted(log)
         /\ \E a \in At(log, "callback", log[i].k) :
              \E d \in Positions(log, "doneCallback") : d < a
         /\ Quiet(r)

\* the events by which a run acts on its caller or on the chain
Effects == {"start", "errorCallback", "doneCallback", "close", "throw"}

\* a callback invoked stop after the run had reached its terminus
LateStop(log, i) ==
  /\ log[i].e = "callback" /\ log[i].x = "stop"
  /\ \E d \in Positions(log, "doneCallback") : d < i

\* C17: once the final callback of a run has been entered the stop
\* capability of its context is a no-op: a callback that invokes stop
\* afterwards signals nothing, and from then on no step is started, no
\* terminal callback is invoked and close() is not called.
C17_StopDisarmed ==
  \A r \in Runs :
    LET log == LogOf(r)
    IN \A i \in 1..Len(log) :
         (BuiltIn(Arr(r)) /\ LateStop(log, i)) =>
           /\ ~StopInvoked(log, i)
           /\ \A j \in 1..Len(log) : j > i => log[j].e \notin Effects

C17_Witness ==
  \E r \in Runs :
    LET log == LogOf(r)
    IN \E i \in 1..Len(log) :
         /\ BuiltIn(Arr(r)) /\ LateStop(log, i)
         /\ Arr(r)[log[i].k].kind = "timeout"
         /\ NoStopOrError(SubSeq(log, 1, i - 1))
         /\ Count(log, "doneCallback") = 1
         /\ Quiet(r)

\* the callback of timeout step log[i].k invoked stop while the later step
\* j, a delay or an extraction, was in flight
DeferredStop(r, i, j) ==
  /\ StopInvoked(LogOf(r), i)
  /\ Arr(r)[LogOf(r)[i].k].kind = "timeout"
  /\ LogOf(r)[i + 1].k = j /\ j > LogOf(r)[i].k
  /\ Arr(r)[j].kind \in {"delay", "scrape"}

\* C18: when the deferred callback of a timeout step invokes stop while a
\* later delay or scrape step j is in flight, doneCallback is invoked at
\* once and exactly once, errorCallback never, and whatever step j signals
\* later (no value or an error) no step is started and no terminal callback
\* is invoked again.
C18_StopFromDeferredWork ==
  \A r \in Runs :
    LET log == LogOf(r)
    IN \A i \in 1..Len(log) : \A j \in 1..Len(Arr(r)) :
         (BuiltIn(Arr(r)) /\ DeferredStop(r, i, j)) =>
           /\ EvAt(log, i + 2).e = "doneCallback" /\ EvAt(log, i + 2).k = 1
           /\ Count(log, "doneCallback") = 1
           /\ Count(log, "errorCallback") = 0
           /\ \A s \in Positions(log, "start") : s < i
           /\ \A q \in 1..Len(log) : q > i + 3 => log[q].e \notin Effects

C18_Witness ==
  \E r \in Runs :
    LET log == LogOf(r)
    IN \E i \in 1..Len(log) : \E j \in 1..Len(Arr(r)) :
         /\ BuiltIn(Arr(r)) /\ DeferredStop(r, i, j)
         /\ j < Len(Arr(r))
         /\ ErrorCallbackOf(r) # "null"
         /\ \E q \in At(log, "signal", j) : q > i + 1 /\ log[q].x = StepError
         /\ Quiet(r)

\* the runs of builder b
RunsOf(b) == {r \in Runs : runs[r].that = b}

\* C11: a chain and its clones hold the same ordered sequence of steps: the
\* registry of a clone is the registry of its original at clone time, and a
\* step appended later through either builder is in the registry of both, at
\* the same position.  Every builder of SpecClone is builder 1 or a clone of
\* one, and no registry is replaced but by clone itself.
C11_CloneSharesRegistry ==
  \A b, c \in Builders :
    /\ builder[b].promises = builder[c].promises
    /\ registry[builder[b].promises] = registry[builder[c].promises]

\* a step was appended after the clone had been made and triggered
C11_Witness ==
  /\ Len(builder) >= 2
  /\ \E r \in RunsOf(2) : runs[r].len0 < Len(registry[builder[1].promises])
  /\ Len(registry[builder[2].promises]) >= 2

ScraperEvents == {"getStatusCode", "scrape", "close"}

\* C12: no two builders have the same scraper; every status-code read,
\* extraction and close() of a run acts on the scraper of the builder that
\* was triggered; and the scraper of a builder that has not been triggered
\* is as it was made, whatever runs its original or its clones have had.
C12_FetcherNotShared ==
  /\ \A b, c \in Builders : b # c => builder[b].scraper # builder[c].scraper
  /\ \A r \in Runs : \A i \in 1..Len(LogOf(r)) :
       LogOf(r)[i].e \in ScraperEvents => LogOf(r)[i].f = ScraperOf(r)
  /\ \A b \in Builders :
       RunsOf(b) = {} =>
         /\ fetcher[builder[b].scraper].closed = 0
         /\ fetcher[builder[b].scraper].statusCode = 0

C12_Witness ==
  /\ Len(builder) >= 2
  /\ RunsOf(1) = {}
  /\ \E r \in RunsOf(2) :
       /\ \A e \in ScraperEvents : Count(LogOf(r), e) >= 1
       /\ fetcher[builder[2].scraper].closed = 1
       /\ fetcher[builder[1].scraper].closed = 0

\* C16: a run triggered on a clone executes exactly the steps that were in
\* the registry when it was triggered: no step appended afterwards is
\* started by it.
C16_AppendDoesNotReachRun ==
  \A r \in Runs :
    runs[r].that # 1 =>
      \A i \in Positions(LogOf(r), "start") : LogOf(r)[i].k <= runs[r].len0

\* the steps of the run were started one after the other from the first
\* and doneCallback was invoked once, after the last of them
RanThrough(r) ==
  LET log == LogOf(r)
      n == Count(log, "start")
  IN /\ n >= runs[r].len0
     /\ \A k \in 1..n : Cardinality(At(log, "start", k)) = 1
     /\ \A j, k \in 1..n :
          j < k => \A a \in At(log, "start", j), b \in At(log, "start", k) : a < b
     /\ Count(log, "doneCallback") = 1
     /\ Count(log, "errorCallback") = 0
     /\ \A d \in Positions(log, "doneCallback") : \A a \in Positions(log, "start") : a < d

\* the run was fired without a pre-trigger error and nothing in it stopped or failed
Undisturbed(r) == runs[r].error = NoErr /\ NoStopOrError(LogOf(r))

\* C19: the runs of a chain and of its clone are independent.  Whatever the
\* other run does, a run in which nothing stopped or failed runs through all
\* its steps, and every run that has nothing left to do has invoked its own
\* doneCallback exactly once.  Stated of the runs whose get succeeded.
C19_InterleavedRunsIndependent ==
  \A r, o \in Runs :
    (runs[r].that # runs[o].that /\ Quiet(r)
       /\ runs[r].error = NoErr /\ runs[o].error = NoErr) =>
      /\ Undisturbed(r) => RanThrough(r)
      /\ Count(LogOf(r), "doneCallback") = 1

\* the part of C19 that does not rest on how an error ends its own run
C19_UndisturbedRunsThrough ==
  \A r, o \in Runs :
    (runs[r].that # runs[o].that /\ Quiet(r) /\ Undisturbed(r)) => RanThrough(r)

\* C20: a builder can be fired again.  A run triggered after an earlier run
\* of the same builder ended (completed, stopped, or failed with the error
\* reported to the error callback) starts at the first step of the registry
\* and, when nothing in it stops or fails, runs through all its steps and
\* invokes doneCallback once.
C20_SecondRunIsFresh ==
  \A r, o \in Runs :
    (o < r /\ runs[o].that = runs[r].that /\ Count(LogOf(o), "uncaught") = 0
       /\ runs[r].error = NoErr) =>
      /\ runs[r].len0 > 0 => EvAt(LogOf(r), 1).e = "start" /\ EvAt(LogOf(r), 1).k = 1
      /\ (Quiet(r) /\ Undisturbed(r)) => RanThrough(r)

C20_Witness ==
  \E r, o \in Runs :
    /\ o < r /\ runs[o].that = runs[r].that
    /\ Halted(LogOf(o)) /\ Count(LogOf(o), "uncaught") = 0
    /\ Count(LogOf(o), "start") < Len(Arr(o))
    /\ runs[r].len0 >= 2
    /\ Quiet(r) /\ Undisturbed(r)
    /\ Count(LogOf(r), "start") = Len(Arr(r))
    /\ Count(LogOf(r), "doneCallback") = 1

\* C13: the chain parameter does not leak.  The context of a run carries
\* what the builder had stashed when the run was fired; after a fire,
\* whatever its outcome, the builder has nothing stashed, so that a run
\* fired next without a new _setChainParameter carries nothing; and a
\* builder made by clone has nothing stashed.
C13_ChainParameterDoesNotLeak ==
  [][/\ Len(runs') > Len(runs) =>
          LET b == runs'[Len(runs')].that
          IN /\ runs'[Len(runs')].params = builder[b].chainParameter
             /\ builder'[b].chainParameter = "null"
     /\ Len(builder') > Len(builder) =>
          builder'[Len(builder')].chainParameter = "null"]_vars

\* a run whose get failed consumed the parameter, the next run of the same
\* builder carried nothing, and a clone has nothing stashed beside an
\* original that has
C13_Witness ==
  /\ \E o, r \in Runs :
       /\ o < r /\ runs[o].that = runs[r].that
       /\ runs[o].params = "param" /\ runs[o].error # NoErr
       /\ runs[r].params = "null"
       /\ builder[runs[r].that].chainParameter = "null"
  /\ Len(builder) >= 2
  /\ builder[1].chainParameter = "param"
  /\ builder[2].chainParameter = "null"

====
